---------------------------- MODULE Spec2Model ----------------------------
(***************************************************************************)
(* A model of cronokirby/ctrsa (nat.go): constant-time natural numbers on  *)
(* unsaturated limbs, modular arithmetic against a precomputed modulus,     *)
(* Montgomery multiplication and windowed exponentiation.                   *)
(*                                                                          *)
(* Machine words are UintSize bits wide and every word operation is taken   *)
(* modulo 2^UintSize, as Go's uint arithmetic is.  The width is scaled down *)
(* from bits.UintSize (32 or 64) so that the operand space can be           *)
(* enumerated; limbs keep _W = UintSize - 1 bits, one bit of headroom.      *)
(* Slices are sequences: Go's limbs[i] is limbs[i + 1] here.                *)
(***************************************************************************)
EXTENDS Integers, Sequences, FiniteSets, TLC

(* The width of a machine word (bits.UintSize), scaled down. *)
UintSize == 4
_W == UintSize - 1
WordMod == 2 ^ UintSize
LimbMod == 2 ^ _W
_MASK == LimbMod - 1
Words == 0 .. (WordMod - 1)
Limbs == 0 .. _MASK

-----------------------------------------------------------------------------
(* Word arithmetic of Go's uint: everything wraps modulo 2^UintSize. *)

RECURSIVE BitAnd(_, _), BitOr(_, _), BitXor(_, _)
BitAnd(a, b) ==
  IF a = 0 \/ b = 0 THEN 0
  ELSE (IF a % 2 = 1 /\ b % 2 = 1 THEN 1 ELSE 0) + 2 * BitAnd(a \div 2, b \div 2)

BitOr(a, b) ==
  IF a = 0 THEN b
  ELSE IF b = 0 THEN a
  ELSE (IF a % 2 = 1 \/ b % 2 = 1 THEN 1 ELSE 0) + 2 * BitOr(a \div 2, b \div 2)

BitXor(a, b) ==
  IF a = 0 THEN b
  ELSE IF b = 0 THEN a
  ELSE (IF a % 2 # b % 2 THEN 1 ELSE 0) + 2 * BitXor(a \div 2, b \div 2)

WAdd(a, b) == (a + b) % WordMod
WSub(a, b) == (a - b) % WordMod
WMul(a, b) == (a * b) % WordMod
WNeg(a) == (0 - a) % WordMod
(* Go shifts: a count of UintSize or more clears the word. *)
Shl(a, k) == IF k >= UintSize THEN 0 ELSE (a * (2 ^ k)) % WordMod
Shr(a, k) == IF k >= UintSize THEN 0 ELSE a \div (2 ^ k)

(* math/bits: Mul returns the double-word product, Add and Sub the carry. *)
MulHi(a, b) == (a * b) \div WordMod
MulLo(a, b) == (a * b) % WordMod
AddLo(a, b, c) == (a + b + c) % WordMod
AddCarry(a, b, c) == (a + b + c) \div WordMod
SubBorrow(a, b, c) == IF a - b - c < 0 THEN 1 ELSE 0

ctIfElse(on, a, b) ==
  LET mask == WNeg(on)
  IN  BitXor(b, BitAnd(mask, BitXor(b, a)))

ctEq(a, b) ==
  LET q == BitXor(a, b)
  IN  BitXor(1, Shr(BitOr(q, WNeg(q)), UintSize - 1))

ctGeq(a, b) == BitXor(1, SubBorrow(a, b, 0))

(* divStep without the bit of hi shifted out above w. *)
divStepNoTopBit(s, i) ==
  LET j == UintSize - i
      wd == BitOr(Shl(s.hi, j), Shr(s.lo, i))
      sel == ctGeq(wd, s.d)
      hi2 == Shr(WSub(wd, s.d), j)
      lo2 == WSub(s.lo, Shl(s.d, i))
  IN  [hi |-> ctIfElse(sel, hi2, s.hi),
       lo |-> ctIfElse(sel, lo2, s.lo),
       d |-> s.d,
       quo |-> Shl(BitOr(s.quo, sel), 1)]

(* One iteration of div's loop, for bit position i. *)
divStep(s, i) ==
  LET j == UintSize - i
      wd == BitOr(Shl(s.hi, j), Shr(s.lo, i))
      sel == BitOr(ctGeq(wd, s.d), Shr(s.hi, i))
      hi2 == Shr(WSub(wd, s.d), j)
      lo2 == WSub(s.lo, Shl(s.d, i))
  IN  [hi |-> ctIfElse(sel, hi2, s.hi),
       lo |-> ctIfElse(sel, lo2, s.lo),
       d |-> s.d,
       quo |-> Shl(BitOr(s.quo, sel), 1)]

RECURSIVE divLoop(_, _)
divLoop(s, i) == IF i > 0 THEN divLoop(divStep(s, i), i - 1) ELSE s

div(hi0, lo0, d0) ==
  LET s == divLoop([hi |-> hi0, lo |-> lo0, d |-> d0, quo |-> 0], UintSize - 1)
      sel == BitOr(ctGeq(s.lo, s.d), s.hi)
  IN  [quo |-> BitOr(s.quo, sel),
       rem |-> ctIfElse(sel, WSub(s.lo, s.d), s.lo)]

-----------------------------------------------------------------------------
(* nat: a sequence of limbs, least significant first. *)

Min(a, b) == IF a < b THEN a ELSE b

RECURSIVE Val(_)
Val(l) == IF l = <<>> THEN 0 ELSE l[1] + LimbMod * Val(Tail(l))

Zeros(n) == [i \in 1 .. n |-> 0]

clone(xl) == [i \in 1 .. Len(xl) |-> xl[i]]

(* x.expand(size), for a slice whose backing array is store (cap = Len(store)). *)
expand(xs, size) ==
  IF Len(xs.store) < size
  THEN LET newLimbs == [i \in 1 .. size |->
                          IF i <= Len(xs.limbs) THEN xs.limbs[i] ELSE 0]
       IN  [limbs |-> newLimbs, store |-> newLimbs]
  ELSE [limbs |-> SubSeq(xs.store, 1, size), store |-> xs.store]

RECURSIVE cmpEqLoop(_, _, _, _)
cmpEqLoop(xl, yl, equal, i) ==
  IF i <= Min(Len(xl), Len(yl))
  THEN cmpEqLoop(xl, yl, BitAnd(equal, ctEq(xl[i], yl[i])), i + 1)
  ELSE equal

cmpEq(xl, yl) == cmpEqLoop(xl, yl, 1, 1)

RECURSIVE cmpGeqLoop(_, _, _, _)
cmpGeqLoop(xl, yl, c, i) ==
  IF i <= Min(Len(xl), Len(yl))
  THEN cmpGeqLoop(xl, yl, Shr(WSub(WSub(xl[i], yl[i]), c), _W), i + 1)
  ELSE c

cmpGeq(xl, yl) == BitXor(1, cmpGeqLoop(xl, yl, 0, 1))

RECURSIVE assignLoop(_, _, _, _)
assignLoop(on, xl, yl, i) ==
  IF i <= Min(Len(xl), Len(yl))
  THEN assignLoop(on, [xl EXCEPT ![i] = ctIfElse(on, yl[i], xl[i])], yl, i + 1)
  ELSE xl

assign(on, xl, yl) == assignLoop(on, xl, yl, 1)

RECURSIVE addLoop(_, _, _, _, _)
addLoop(on, xl, yl, c, i) ==
  IF i <= Min(Len(xl), Len(yl))
  THEN LET res == WAdd(WAdd(xl[i], yl[i]), c)
       IN  addLoop(on, [xl EXCEPT ![i] = ctIfElse(on, BitAnd(res, _MASK), xl[i])],
                   yl, Shr(res, _W), i + 1)
  ELSE [limbs |-> xl, c |-> c]

(* add returning at once, with no carry, when on is 0. *)
addSkipped(on, xl, yl) ==
  IF on = 1 THEN addLoop(1, xl, yl, 0, 1) ELSE [limbs |-> xl, c |-> 0]

(* x.add(on, y): the limbs of x afterwards and the returned carry. *)
add(on, xl, yl) == addLoop(on, xl, yl, 0, 1)

RECURSIVE subLoop(_, _, _, _, _)
subLoop(on, xl, yl, c, i) ==
  IF i <= Min(Len(xl), Len(yl))
  THEN LET res == WSub(WSub(xl[i], yl[i]), c)
       IN  subLoop(on, [xl EXCEPT ![i] = ctIfElse(on, BitAnd(res, _MASK), xl[i])],
                   yl, Shr(res, _W), i + 1)
  ELSE [limbs |-> xl, c |-> c]

(* x.sub(on, y): the limbs of x afterwards and the returned borrow. *)
sub(on, xl, yl) == subLoop(on, xl, yl, 0, 1)

RECURSIVE mulSubLoop(_, _, _, _, _)
mulSubLoop(q, xl, ml, cc, i) ==
  IF i <= Min(Len(xl), Len(ml))
  THEN LET mhi == MulHi(q, ml[i])
           mlo == MulLo(q, ml[i])
           lo1 == AddLo(mlo, cc, 0)
           hi1 == WAdd(mhi, AddCarry(mlo, cc, 0))
           cc1 == BitOr(Shl(hi1, 1), Shr(lo1, _W))
           res == WSub(xl[i], BitAnd(lo1, _MASK))
       IN  mulSubLoop(q, [xl EXCEPT ![i] = BitAnd(res, _MASK)], ml,
                      WAdd(cc1, Shr(res, _W)), i + 1)
  ELSE [limbs |-> xl, cc |-> cc]

(* x.mulSub(q, m): the limbs of x afterwards and the returned carry. *)
mulSub(q, xl, ml) == mulSubLoop(q, xl, ml, 0, 1)

-----------------------------------------------------------------------------
(* modulus *)

(* The Newton iterations of minusInverseModW. *)
NewtonIterations == 5

RECURSIVE newtonLoop(_, _, _)
newtonLoop(xw, yw, i) ==
  IF i < NewtonIterations
  THEN newtonLoop(xw, BitAnd(WMul(yw, WSub(2, WMul(xw, yw))), _MASK), i + 1)
  ELSE yw

minusInverseModW(xw) == WSub(Shl(1, _W), newtonLoop(xw, xw, 0))

RECURSIVE BitLen(_)
BitLen(v) == IF v = 0 THEN 0 ELSE 1 + BitLen(v \div 2)

(* bits.LeadingZeros over a full word. *)
LeadingZeros(v) == UintSize - BitLen(v)

RECURSIVE stripSize(_, _)
stripSize(l, size) ==
  IF size > 0 /\ l[size] = 0 THEN stripSize(l, size - 1) ELSE size

(* modulusFromNat of a nonzero nat (a zero nat indexes limbs[-1]). *)
modulusFromNat(l) ==
  LET size == stripSize(l, Len(l))
      ml == SubSeq(l, 1, size)
  IN  [nat |-> ml,
       leading |-> LeadingZeros(ml[size]) - 1,
       m0inv |-> minusInverseModW(ml[1])]

-----------------------------------------------------------------------------
(* shiftIn and the operations built on it *)

RECURSIVE shiftUp(_, _)
shiftUp(xl, i) ==
  IF i > 1 THEN shiftUp([xl EXCEPT ![i] = xl[i - 1]], i - 1) ELSE xl

(* The estimate q of the quotient from the top limbs a1:a0 of x and b0 of m. *)
shiftInQuotient(a1, a0, b0) ==
  LET rawQ == div(Shr(a1, 1), BitOr(Shl(a1, _W), a0), b0).quo
  IN  ctIfElse(ctEq(a1, b0), _MASK, ctIfElse(ctEq(rawQ, 0), 0, WSub(rawQ, 1)))

(* The two correction flags, from x after mulSub and the carry it returned. *)
shiftInFlags(ms, q, xhi, md) ==
  LET under == BitXor(1, ctGeq(xhi, ms.cc))
      stillBigger == cmpGeq(ms.limbs, md.nat)
      over == BitAnd(BitXor(1, under),
                     BitOr(stillBigger, BitXor(1, ctEq(ms.cc, xhi))))
  IN  [limbs |-> ms.limbs, q |-> q, under |-> under, over |-> over]

(* The subtraction of q * m from the shifted x. *)
shiftInMulSub(q, x1, xhi, md) == shiftInFlags(mulSub(q, x1, md.nat), q, xhi, md)

(* The multi-limb path of shiftIn up to its two correction flags. *)
shiftInEstimate(xl, yw, md) ==
  LET size == Len(md.nat)
      ld == md.leading
      a1 == BitAnd(BitOr(Shl(xl[size], ld), Shr(xl[size - 1], _W - ld)), _MASK)
      x1 == [shiftUp(xl, size) EXCEPT ![1] = yw]
      a0 == BitAnd(BitOr(Shl(x1[size], ld), Shr(x1[size - 1], _W - ld)), _MASK)
      b0 == BitAnd(BitOr(Shl(md.nat[size], ld),
                         Shr(md.nat[size - 1], _W - ld)), _MASK)
  IN  shiftInMulSub(shiftInQuotient(a1, a0, b0), x1, xl[size], md)

(* The addition of m when the estimate was too large. *)
shiftInAdd(est, md) ==
  [est EXCEPT !.limbs = add(est.under, est.limbs, md.nat).limbs]

(* The subtraction of m when the estimate was too small. *)
shiftInSub(est, md) == sub(est.over, est.limbs, md.nat).limbs

(* shiftIn without the subtraction of m when the estimate was too small. *)
shiftInNoOver(xl, yw, md) ==
  LET size == Len(md.nat)
  IN  IF size = 0 THEN xl
      ELSE IF size = 1
      THEN [xl EXCEPT ![1] =
              div(Shr(xl[1], 1), BitOr(Shl(xl[1], _W), yw), md.nat[1]).rem]
      ELSE shiftInAdd(shiftInEstimate(xl, yw, md), md).limbs

(* x.shiftIn(y, m), for len(x) = len(m.nat): the limbs of x afterwards. *)
shiftIn(xl, yw, md) ==
  LET size == Len(md.nat)
  IN  IF size = 0 THEN xl
      ELSE IF size = 1
      THEN [xl EXCEPT ![1] =
              div(Shr(xl[1], 1), BitOr(Shl(xl[1], _W), yw), md.nat[1]).rem]
      ELSE shiftInSub(shiftInAdd(shiftInEstimate(xl, yw, md), md), md)

RECURSIVE modCopy(_, _, _, _)
modCopy(outl, xl, j, i) ==
  IF j >= 0 THEN modCopy([outl EXCEPT ![j + 1] = xl[i + 1]], xl, j - 1, i - 1)
  ELSE outl

RECURSIVE modShift(_, _, _, _)
modShift(outl, xl, i, md) ==
  IF i >= 0 THEN modShift(shiftIn(outl, xl[i + 1], md), xl, i - 1, md)
  ELSE outl

(* mod copying len(m.nat) limbs of x, one too many, before it shifts in. *)
modCopyTooMany(outl, xl, md) ==
  LET size == Len(md.nat)
      out0 == Zeros(Len(expand([limbs |-> outl, store |-> outl], size).limbs))
      i == Len(xl) - 1
      start == IF i < size - 1 THEN i ELSE size - 1
      out1 == modCopy(out0, xl, start, i)
  IN  modShift(out1, xl, i - (start + 1), md)

(* out.mod(x, m): the limbs of out afterwards. *)
mod(outl, xl, md) ==
  LET size == Len(md.nat)
      out0 == Zeros(Len(expand([limbs |-> outl, store |-> outl], size).limbs))
      i == Len(xl) - 1
      start == IF i < size - 2 THEN i ELSE size - 2
      out1 == modCopy(out0, xl, start, i)
  IN  modShift(out1, xl, i - (start + 1), md)

(* modSub without the addition of m after a borrow. *)
modSubNoCorrection(xl, yl, md) == sub(1, xl, yl).limbs

modSub(xl, yl, md) ==
  LET s == sub(1, xl, yl)
  IN  add(s.c, s.limbs, md.nat).limbs

(* The carry of the addition and the failed comparison, as modAdd sees them. *)
modAddFlags(xl, yl, md) ==
  LET a == add(1, xl, yl)
  IN  [overflow |-> a.c, underflow |-> BitXor(1, cmpGeq(a.limbs, md.nat))]

(* modAdd deciding on the comparison alone, without the carry. *)
modAddIgnoreOverflow(xl, yl, md) ==
  LET a == add(1, xl, yl)
      f == modAddFlags(xl, yl, md)
  IN  sub(BitXor(1, f.underflow), a.limbs, md.nat).limbs

(* modAdd subtracting its operand y, not m, when the sum is too large. *)
modAddSubtractOperand(xl, yl, md) ==
  LET a == add(1, xl, yl)
      f == modAddFlags(xl, yl, md)
      needSubtraction == ctEq(f.overflow, f.underflow)
  IN  sub(needSubtraction, a.limbs, yl).limbs

modAdd(xl, yl, md) ==
  LET a == add(1, xl, yl)
      f == modAddFlags(xl, yl, md)
      needSubtraction == ctEq(f.overflow, f.underflow)
  IN  sub(needSubtraction, a.limbs, md.nat).limbs

RECURSIVE montgomeryRepresentationLoop(_, _, _)
montgomeryRepresentationLoop(xl, md, i) ==
  IF i < Len(md.nat)
  THEN montgomeryRepresentationLoop(shiftIn(xl, 0, md), md, i + 1)
  ELSE xl

montgomeryRepresentation(xl, md) == montgomeryRepresentationLoop(xl, md, 0)



-----------------------------------------------------------------------------
(* Montgomery multiplication *)

(* One step of montgomeryMul's inner loop, at limb j (counted from 0). *)
montgomeryInner(s, xi, f, yl, md, j) ==
  LET hi1 == MulHi(xi, yl[j + 1])
      lo1 == MulLo(xi, yl[j + 1])
      zlo1 == AddLo(s.out[j + 1], lo1, 0)
      zhi1 == AddLo(0, hi1, AddCarry(s.out[j + 1], lo1, 0))
      hi2 == MulHi(f, md.nat[j + 1])
      lo2 == MulLo(f, md.nat[j + 1])
      zlo2 == AddLo(zlo1, lo2, 0)
      zhi2 == AddLo(zhi1, hi2, AddCarry(zlo1, lo2, 0))
      zlo3 == AddLo(zlo2, s.carry, 0)
      zhi3 == AddLo(zhi2, 0, AddCarry(zlo2, s.carry, 0))
  IN  [out |-> IF j > 0 THEN [s.out EXCEPT ![j] = BitAnd(zlo3, _MASK)] ELSE s.out,
       carry |-> BitOr(Shr(zlo3, _W), Shl(zhi3, 1))]

RECURSIVE montgomeryInnerLoop(_, _, _, _, _, _)
montgomeryInnerLoop(s, xi, f, yl, md, j) ==
  IF j < Len(yl) /\ j < Len(md.nat) /\ j < Len(s.out)
  THEN montgomeryInnerLoop(montgomeryInner(s, xi, f, yl, md, j), xi, f, yl, md, j + 1)
  ELSE s

(* montgomeryOuter storing z in the top limb without masking it. *)
montgomeryOuterNoMask(s, xl, yl, md, i) ==
  LET f == BitAnd(WMul(WAdd(s.out[1], WMul(xl[i + 1], yl[1])), md.m0inv), _MASK)
      t == montgomeryInnerLoop([out |-> s.out, carry |-> 0], xl[i + 1], f, yl, md, 0)
      z == WAdd(s.overflow, t.carry)
  IN  [out |-> [t.out EXCEPT ![Len(t.out)] = z],
       overflow |-> Shr(z, _W)]

(* One iteration of montgomeryMul's outer loop, at limb i (counted from 0). *)
montgomeryOuter(s, xl, yl, md, i) ==
  LET f == BitAnd(WMul(WAdd(s.out[1], WMul(xl[i + 1], yl[1])), md.m0inv), _MASK)
      t == montgomeryInnerLoop([out |-> s.out, carry |-> 0], xl[i + 1], f, yl, md, 0)
      z == WAdd(s.overflow, t.carry)
  IN  [out |-> [t.out EXCEPT ![Len(t.out)] = BitAnd(z, _MASK)],
       overflow |-> Shr(z, _W)]

RECURSIVE montgomeryOuterLoop(_, _, _, _, _)
montgomeryOuterLoop(s, xl, yl, md, i) ==
  IF i < Len(xl)
  THEN montgomeryOuterLoop(montgomeryOuter(s, xl, yl, md, i), xl, yl, md, i + 1)
  ELSE s

(* montgomeryMul without the final conditional subtraction. *)
montgomeryMulNoReduce(outl, xl, yl, md) ==
  montgomeryOuterLoop([out |-> Zeros(Len(outl)), overflow |-> 0], xl, yl, md, 0).out

(* The conditional subtraction of m that ends montgomeryMul. *)
montgomeryReduce(s, md) ==
  LET underflow == BitXor(1, cmpGeq(s.out, md.nat))
      needSubtraction == ctEq(s.overflow, underflow)
  IN  sub(needSubtraction, s.out, md.nat).limbs

(* out.montgomeryMul(x, y, m): the limbs of out afterwards. *)
montgomeryMul(outl, xl, yl, md) ==
  montgomeryReduce(montgomeryOuterLoop([out |-> Zeros(Len(outl)), overflow |-> 0],
                                       xl, yl, md, 0),
                   md)

(* modMul multiplying x as it is, not its Montgomery representation. *)
modMulNoRepresentation(xl, yl, md) == montgomeryMul(xl, clone(xl), yl, md)

(* x.modMul(y, m): the limbs of x afterwards. *)
modMul(xl, yl, md) ==
  montgomeryMul(xl, montgomeryRepresentation(clone(xl), md), yl, md)

-----------------------------------------------------------------------------
(* Windowed exponentiation: each exponent byte is two 4-bit windows. *)

(* The entries of exp's table. *)
TableSize == 15
(* The width, in bits, of a window. *)
WindowBits == 4
(* The width, in bits, of an exponent byte: two windows. *)
ExpByteBits == 2 * WindowBits

(* The loop that fills exp's table; the next index is the table's length. *)
RECURSIVE expTable(_, _)
expTable(xs, md) ==
  IF Len(xs) < TableSize
  THEN expTable(Append(xs, montgomeryMul(Zeros(Len(md.nat)), xs[Len(xs)], xs[1], md)),
                md)
  ELSE xs

(* The table lookup comparing the window with i, not i + 1. *)
RECURSIVE expSelectOffByOne(_, _, _, _)
expSelectOffByOne(selectedX, xs, window, i) ==
  IF i < Len(xs)
  THEN expSelectOffByOne(assign(ctEq(window, i), selectedX, xs[i + 1]), xs, window, i + 1)
  ELSE selectedX

RECURSIVE expSelect(_, _, _, _)
expSelect(selectedX, xs, window, i) ==
  IF i < Len(xs)
  THEN expSelect(assign(ctEq(window, i + 1), selectedX, xs[i + 1]), xs, window, i + 1)
  ELSE selectedX

(* scratch.montgomeryMul(out, out, m) *)
expSquareScratch(s, md) ==
  [s EXCEPT !.scratch = montgomeryMul(s.scratch, s.out, s.out, md)]

(* out.montgomeryMul(scratch, scratch, m) *)
expSquareOut(s, md) ==
  [s EXCEPT !.out = montgomeryMul(s.out, s.scratch, s.scratch, md)]

(* The window of byte b at shift j. *)
expWindowOf(b, j) == BitAnd(b \div (2 ^ j), 2 ^ WindowBits - 1)

(* The table lookup into selectedX. *)
expLookup(s, xs, window) ==
  [s EXCEPT !.selectedX = expSelect(s.selectedX, xs, window, 0)]

(* scratch.montgomeryMul(out, selectedX, m) *)
expMultiply(s, md) ==
  [s EXCEPT !.scratch = montgomeryMul(s.scratch, s.out, s.selectedX, md)]

(* out.assign(1^ctEq(window, 0), scratch), and the loop's step of j. *)
expAssign(s, window) ==
  [s EXCEPT !.out = assign(BitXor(1, ctEq(window, 0)), s.out, s.scratch),
            !.j = s.j - WindowBits]

(* The body of exp's loop for the window of byte b at shift s.j. *)
expWindow(s, xs, b, md) ==
  expAssign(
    expMultiply(
      expLookup(
        expSquareOut(expSquareScratch(expSquareOut(expSquareScratch(s, md), md), md), md),
        xs, expWindowOf(b, s.j)),
      md),
    expWindowOf(b, s.j))

(* The inner loop of exp, over the windows of byte b. *)
RECURSIVE expByte(_, _, _, _)
expByte(s, xs, b, md) ==
  IF s.j >= 0 THEN expByte(expWindow(s, xs, b, md), xs, b, md) ELSE s

(* The outer loop of exp, over the bytes of e; s.k is the next byte. *)
RECURSIVE expLoop(_, _, _, _)
expLoop(s, xs, e, md) ==
  IF s.k <= Len(e)
  THEN expLoop([expByte([s EXCEPT !.j = ExpByteBits - WindowBits], xs, e[s.k], md)
                  EXCEPT !.k = s.k + 1],
               xs, e, md)
  ELSE s

(* The state before exp's loop: out is one in Montgomery representation. *)
expStart(out0, md) ==
  [out |-> montgomeryRepresentation([Zeros(Len(out0)) EXCEPT ![1] = 1], md),
   scratch |-> Zeros(Len(md.nat)),
   selectedX |-> Zeros(Len(md.nat)),
   j |-> 0,
   k |-> 1]

(* The multiplication by one that leaves Montgomery representation. *)
expFinish(s, md) ==
  montgomeryMul(s.out, clone(s.out), [Zeros(Len(s.scratch)) EXCEPT ![1] = 1], md)

(* out.exp(x, e, m): the limbs of out afterwards. *)
exp(outl, xl, e, md) ==
  expFinish(
    expLoop(expStart(expand([limbs |-> outl, store |-> outl], Len(md.nat)).limbs, md),
            expTable(<<montgomeryRepresentation(clone(xl), md)>>, md),
            e, md),
    md)

-----------------------------------------------------------------------------
(* Conversion to and from big-endian bytes.                                 *)
(*                                                                          *)
(* The conversions regroup bits between bytes and _W-bit limbs.  The byte   *)
(* width is scaled down with the word (8 against 63 in the source): the     *)
(* source's 8 is ByteBits, its ">> 3" and "& 0b111" are the quotient and    *)
(* remainder by ByteBits, and byte(v) is v modulo 2^ByteBits.               *)
(* A conversion that indexes outside a slice panics; the model records it.  *)

ByteBits == 2
ByteMod == 2 ^ ByteBits
Bytes == 0 .. (ByteMod - 1)

(* byte(v): the conversion of a word to a byte. *)
byte(v) == v % ByteMod

RECURSIVE BytesVal(_)
BytesVal(b) == IF b = <<>> THEN 0 ELSE BytesVal(SubSeq(b, 1, Len(b) - 1)) * ByteMod + b[Len(b)]

InRange(l, i) == i >= 0 /\ i < Len(l)

(* natFromBytes' loop body for bytes[i]; s.outI and i count from 0. *)
natFromBytesStep(s, bi) ==
  IF s.panicked THEN s
  ELSE IF ~InRange(s.limbs, s.outI) THEN [s EXCEPT !.panicked = TRUE]
  ELSE
    LET l1 == [s.limbs EXCEPT ![s.outI + 1] = BitOr(@, Shl(bi, s.shift))]
        shift1 == s.shift + ByteBits
    IN  IF shift1 >= _W
        THEN LET shift2 == shift1 - _W
                 l2 == [l1 EXCEPT ![s.outI + 1] = BitAnd(@, _MASK)]
             IN  IF ~InRange(l2, s.outI + 1)
                 THEN [limbs |-> l2, outI |-> s.outI + 1, shift |-> shift2,
                       panicked |-> TRUE]
                 ELSE [limbs |-> [l2 EXCEPT ![s.outI + 2] = Shr(bi, ByteBits - shift2)],
                       outI |-> s.outI + 1, shift |-> shift2, panicked |-> FALSE]
        ELSE [limbs |-> l1, outI |-> s.outI, shift |-> shift1, panicked |-> FALSE]

RECURSIVE natFromBytesLoop(_, _, _)
natFromBytesLoop(s, bytes, i) ==
  IF i >= 0 THEN natFromBytesLoop(natFromBytesStep(s, bytes[i + 1]), bytes, i - 1)
  ELSE s

(* natFromBytes(bytes): the limbs of the result, or that the call panicked. *)
natFromBytes(bytes) ==
  LET bits == Len(bytes) * ByteBits
      requiredLimbs == (bits + _W - 1) \div _W
      s == natFromBytesLoop([limbs |-> Zeros(requiredLimbs), outI |-> 0, shift |-> 0,
                             panicked |-> FALSE], bytes, Len(bytes) - 1)
  IN  [limbs |-> s.limbs, panicked |-> s.panicked]

(* bytes[outI] = v, or a panic when outI is outside bytes. *)
putByte(s, v) ==
  IF s.panicked THEN s
  ELSE IF ~InRange(s.bytes, s.outI) THEN [s EXCEPT !.panicked = TRUE]
  ELSE [s EXCEPT !.bytes[s.outI + 1] = v]

(* bytes[outI] |= v, or a panic when outI is outside bytes. *)
orByte(s, v) ==
  IF s.panicked THEN s
  ELSE IF ~InRange(s.bytes, s.outI) THEN [s EXCEPT !.panicked = TRUE]
  ELSE [s EXCEPT !.bytes[s.outI + 1] = BitOr(@, v)]

RECURSIVE fillFullBytes(_, _, _)
fillFullBytes(s, limb, n) ==
  IF n > 0
  THEN fillFullBytes([putByte(s, byte(limb)) EXCEPT !.outI = @ - 1],
                     Shr(limb, ByteBits), n - 1)
  ELSE [s EXCEPT !.limb = limb]

(* fillBytes' first loop body, for one limb that fits the buffer. *)
fillBytesLimb(s, limb0) ==
  LET s1 == IF s.shift > 0
            THEN [orByte(s, byte(Shl(byte(limb0), s.shift))) EXCEPT !.outI = @ - 1]
            ELSE s
      consumed == IF s.shift > 0 THEN ByteBits - s.shift ELSE 0
      limb1 == Shr(limb0, consumed)
      remainingBits == _W - consumed
      fullBytes == remainingBits \div ByteBits
      s2 == fillFullBytes([s1 EXCEPT !.shift = remainingBits % ByteBits],
                          limb1, fullBytes)
  IN  putByte(s2, byte(s2.limb))

RECURSIVE fillBytesLimbs(_, _, _, _)
fillBytesLimbs(s, xl, k, n) ==
  IF k <= n THEN fillBytesLimbs(fillBytesLimb(s, xl[k]), xl, k + 1, n) ELSE s

RECURSIVE fillBytesTail(_, _)
fillBytesTail(s, lastLimb) ==
  IF s.outI >= 0
  THEN fillBytesTail([putByte(s, byte(lastLimb)) EXCEPT !.outI = @ - 1],
                     Shr(lastLimb, ByteBits))
  ELSE s

(* x.fillBytes(bytes), for a nat whose slice has backing array store:       *)
(* the buffer afterwards, or that the call panicked.                        *)
fillBytes(xs, bytes) ==
  LET fittingLimbs == (Len(bytes) * ByteBits) \div _W
      s0 == [bytes |-> bytes, outI |-> Len(bytes) - 1, shift |-> 0, limb |-> 0,
             panicked |-> FALSE]
  IN  IF fittingLimbs > Len(xs.store)
      THEN [bytes |-> bytes, panicked |-> TRUE]
      ELSE
        LET s1 == fillBytesLimbs(s0, xs.store, 1, fittingLimbs)
        IN  IF s1.panicked \/ fittingLimbs >= Len(xs.limbs)
            THEN [bytes |-> s1.bytes, panicked |-> s1.panicked]
            ELSE
              LET lastLimb == xs.limbs[fittingLimbs + 1]
                  s2 == IF s1.shift > 0
                        THEN [orByte(s1, byte(Shl(byte(lastLimb), s1.shift)))
                                EXCEPT !.outI = @ - 1]
                        ELSE s1
                  last1 == IF s1.shift > 0 THEN Shr(lastLimb, ByteBits - s1.shift)
                           ELSE lastLimb
                  s3 == fillBytesTail(s2, last1)
              IN  [bytes |-> s3.bytes, panicked |-> s3.panicked]

-----------------------------------------------------------------------------
VARIABLES
  op,        \* the operation that has run ("init" before any)
  m,         \* the modulus: [nat, leading, m0inv]
  x,         \* a nat; the receiver of shiftIn, modAdd, modSub and modMul
  y,         \* the operand nat
  out,       \* the receiver of mod, montgomeryMul and exp
  old,       \* x, y, out and m as they were when the operation was called
  word,      \* the word shiftIn shifts in; the size expand is called with; the width
             \* minusInverseModW runs at; the choice add and sub are called with
  e,         \* exp's exponent, big-endian bytes
  buf,       \* the byte slice of natFromBytes and fillBytes
  hi,        \* div's operands ...
  lo,
  d,
  quo,       \* ... and its results; the carry or borrow add and sub return
  rem,
  panicked,  \* the operation indexed outside a slice
  big,       \* the words of a big.Int (big.Int.Bits), least significant first
  store,     \* the backing array of x.limbs, where it matters: cap(x.limbs) is its length
  trace      \* the operations a call ran and the indices it read and wrote

vars == <<op, m, x, y, out, old, word, e, buf, hi, lo, d, quo, rem, panicked, big, store,
          trace>>

(* The variables only the conversions, expand and the traced calls use. *)
rest == <<big, store, trace>>

NoNat == <<>>
NoMod == [nat |-> <<>>, leading |-> 0, m0inv |-> 0]
NoOld == [x |-> <<>>, y |-> <<>>, out |-> <<>>, m |-> NoMod]
Snapshot == [x |-> x, y |-> y, out |-> out, m |-> m]

(* The largest modulus drawn. *)
MaxModulus == 63
(* The largest value of an operand that need not be reduced. *)
MaxOperand == 511
(* The largest announced length (number of limbs) of such an operand. *)
MaxLimbs == 3

(* The n-limb nat of value v. *)
ToLimbs(v, n) == [i \in 1 .. n |-> (v \div (LimbMod ^ (i - 1))) % LimbMod]

RECURSIVE LimbsFor(_)
LimbsFor(v) == IF v = 0 THEN 0 ELSE 1 + LimbsFor(v \div LimbMod)

(* Every modulus up to MaxModulus, built from a nat padded to a common length. *)
Moduli == {modulusFromNat(ToLimbs(v, LimbsFor(MaxModulus))) : v \in 1 .. MaxModulus}
OddModuli == {md \in Moduli : md.nat[1] % 2 = 1}

(* The nats below md, of md's announced length. *)
Reduced(md) == {ToLimbs(v, Len(md.nat)) : v \in 0 .. (Val(md.nat) - 1)}

(* The nats of every announced length up to MaxLimbs and value up to MaxOperand. *)
Operands ==
  UNION {{ToLimbs(v, n) : v \in {u \in 0 .. MaxOperand : u < LimbMod ^ n}} :
         n \in 0 .. MaxLimbs}

(* A receiver's previous contents: n limbs, all set. *)
Junk(n) == [i \in 1 .. n |-> _MASK]

InRangeLimbs(l) == \A i \in 1 .. Len(l) : l[i] \in Limbs

NoWords == hi = 0 /\ lo = 0 /\ d = 0 /\ quo = 0 /\ rem = 0
NoBytes == e = <<>> /\ buf = <<>>
NoRest == big = <<>> /\ store = <<>> /\ trace = <<>>

-----------------------------------------------------------------------------
(* div on every triple of full-width words. *)

InitDiv ==
  /\ op = "init"
  /\ hi \in Words /\ lo \in Words /\ d \in Words
  /\ quo = 0 /\ rem = 0
  /\ m = NoMod /\ x = NoNat /\ y = NoNat /\ out = NoNat /\ old = NoOld
  /\ word = 0 /\ NoBytes /\ panicked = FALSE
  /\ NoRest

Div ==
  /\ op = "init"
  /\ op' = "div"
  /\ quo' = div(hi, lo, d).quo
  /\ rem' = div(hi, lo, d).rem
  /\ UNCHANGED <<m, x, y, out, old, word, e, buf, hi, lo, d, panicked, rest>>

NextDiv == Div

SpecDiv == InitDiv /\ [][NextDiv]_vars

(* C8: for full-width words with hi < d, div returns the quotient and the   *)
(* remainder of the double word hi:lo by d.                                 *)
DivCorrect ==
  (op = "div" /\ hi < d) =>
    /\ quo = (hi * WordMod + lo) \div d
    /\ rem = (hi * WordMod + lo) % d

(* A division whose quotient fills the word and whose remainder is not 0. *)
DivWitness ==
  /\ op = "div" /\ hi < d /\ hi > 0
  /\ quo = WordMod - 1 /\ rem > 0

-----------------------------------------------------------------------------
(* shiftIn on every modulus, every reduced x and every limb shifted in. *)

InitShift ==
  /\ op = "init"
  /\ m \in Moduli
  /\ x \in Reduced(m)
  /\ word \in Limbs
  /\ y = NoNat /\ out = NoNat /\ old = NoOld
  /\ NoWords /\ NoBytes /\ panicked = FALSE
  /\ NoRest

ShiftIn ==
  /\ op = "init"
  /\ op' = "shiftIn"
  /\ x' = shiftIn(x, word, m)
  /\ old' = Snapshot
  /\ UNCHANGED <<m, y, out, word, e, buf, hi, lo, d, quo, rem, panicked, rest>>

NextShift == ShiftIn

SpecShift == InitShift /\ [][NextShift]_vars

(* C3: x.shiftIn(y, m) leaves x = (x_old * 2^W + y) mod m, fully reduced,    *)
(* for one-limb and for multi-limb moduli.                                   *)
ShiftInCorrect ==
  (op = "shiftIn" /\ Len(old.x) = Len(m.nat) /\ Val(old.x) < Val(m.nat)) =>
    /\ Len(x) = Len(m.nat)
    /\ InRangeLimbs(x)
    /\ Val(x) = (Val(old.x) * LimbMod + word) % Val(m.nat)

(* A multi-limb shiftIn whose estimate was too large: m is added back. *)
ShiftInWitness ==
  /\ op = "shiftIn" /\ Len(m.nat) >= 2
  /\ Val(old.x) < Val(m.nat)
  /\ shiftInEstimate(old.x, word, m).under = 1

(* A multi-limb shiftIn whose estimate was too small: m is subtracted. *)
ShiftInOver ==
  /\ op = "shiftIn" /\ Len(m.nat) >= 2
  /\ Val(old.x) < Val(m.nat)
  /\ shiftInEstimate(old.x, word, m).over = 1

-----------------------------------------------------------------------------
(* mod on every modulus and every operand, shorter or longer than it. *)

InitMod ==
  /\ op = "init"
  /\ m \in Moduli
  /\ x \in Operands
  /\ out \in {NoNat, Junk(MaxLimbs)}
  /\ y = NoNat /\ old = NoOld /\ word = 0
  /\ NoWords /\ NoBytes /\ panicked = FALSE
  /\ NoRest

Mod ==
  /\ op = "init"
  /\ op' = "mod"
  /\ out' = mod(out, x, m)
  /\ old' = Snapshot
  /\ UNCHANGED <<m, x, y, word, e, buf, hi, lo, d, quo, rem, panicked, rest>>

NextMod == Mod

SpecMod == InitMod /\ [][NextMod]_vars

(* C4: out.mod(x, m) leaves out with len(m.nat) limbs and value x mod m,    *)
(* whatever the announced length of x.                                      *)
ModCorrect ==
  op = "mod" =>
    /\ Len(out) = Len(m.nat)
    /\ InRangeLimbs(out)
    /\ Val(out) = Val(x) % Val(m.nat)

(* A reduction of an x longer than the modulus that changes its value. *)
ModWitness ==
  /\ op = "mod"
  /\ Len(x) > Len(m.nat) /\ Len(m.nat) >= 2
  /\ Val(x) >= 2 * Val(m.nat)
  /\ Val(out) = Val(x) % Val(m.nat) /\ Val(out) > 0

-----------------------------------------------------------------------------
(* modAdd and modSub on every modulus and every pair of reduced operands. *)

InitAddSub ==
  /\ op = "init"
  /\ m \in Moduli
  /\ x \in Reduced(m)
  /\ y \in Reduced(m)
  /\ out = NoNat /\ old = NoOld /\ word = 0
  /\ NoWords /\ NoBytes /\ panicked = FALSE
  /\ NoRest

ModAdd ==
  /\ op = "init"
  /\ op' = "modAdd"
  /\ x' = modAdd(x, y, m)
  /\ old' = Snapshot
  /\ UNCHANGED <<m, y, out, word, e, buf, hi, lo, d, quo, rem, panicked, rest>>

ModSub ==
  /\ op = "init"
  /\ op' = "modSub"
  /\ x' = modSub(x, y, m)
  /\ old' = Snapshot
  /\ UNCHANGED <<m, y, out, word, e, buf, hi, lo, d, quo, rem, panicked, rest>>

NextAddSub == ModAdd \/ ModSub

SpecAddSub == InitAddSub /\ [][NextAddSub]_vars

(* C5: x.modAdd(y, m) leaves x = (x_old + y) mod m, fully reduced, and never *)
(* sees overflow = 1 together with underflow = 0.                            *)
ModAddCorrect ==
  (op = "modAdd" /\ Val(old.x) < Val(m.nat) /\ Val(y) < Val(m.nat)) =>
    /\ Len(x) = Len(m.nat)
    /\ InRangeLimbs(x)
    /\ Val(x) = (Val(old.x) + Val(y)) % Val(m.nat)
    /\ ~(modAddFlags(old.x, y, m).overflow = 1 /\ modAddFlags(old.x, y, m).underflow = 0)

(* An addition that carries out of the top limb and is reduced once. *)
ModAddWitness ==
  /\ op = "modAdd"
  /\ modAddFlags(old.x, y, m).overflow = 1
  /\ Val(old.x) + Val(y) >= Val(m.nat)
  /\ Val(x) = Val(old.x) + Val(y) - Val(m.nat)

(* C6: x.modSub(y, m) leaves x = (x_old - y) mod m, fully reduced. *)
ModSubCorrect ==
  (op = "modSub" /\ Val(old.x) < Val(m.nat) /\ Val(y) < Val(m.nat)) =>
    /\ Len(x) = Len(m.nat)
    /\ InRangeLimbs(x)
    /\ Val(x) = (Val(old.x) - Val(y)) % Val(m.nat)

(* A subtraction that borrows, corrected by one addition of m. *)
ModSubWitness ==
  /\ op = "modSub"
  /\ Len(m.nat) >= 2
  /\ Val(old.x) < Val(y)
  /\ Val(x) = Val(old.x) + Val(m.nat) - Val(y)

-----------------------------------------------------------------------------
(* montgomeryMul and modMul on every odd modulus and every reduced pair. *)

InitMont ==
  /\ op = "init"
  /\ m \in OddModuli
  /\ x \in Reduced(m)
  /\ y \in Reduced(m)
  /\ out = Junk(Len(m.nat))
  /\ old = NoOld /\ word = 0
  /\ NoWords /\ NoBytes /\ panicked = FALSE
  /\ NoRest

MontgomeryMul ==
  /\ op = "init"
  /\ op' = "montgomeryMul"
  /\ out' = montgomeryMul(out, x, y, m)
  /\ old' = Snapshot
  /\ UNCHANGED <<m, x, y, word, e, buf, hi, lo, d, quo, rem, panicked, rest>>

ModMul ==
  /\ op = "init"
  /\ op' = "modMul"
  /\ x' = modMul(x, y, m)
  /\ old' = Snapshot
  /\ UNCHANGED <<m, y, out, word, e, buf, hi, lo, d, quo, rem, panicked, rest>>

NextMont == MontgomeryMul \/ ModMul

SpecMont == InitMont /\ [][NextMont]_vars

(* The Montgomery radix R = 2^(W*n) of a modulus of n limbs. *)
Radix(md) == LimbMod ^ Len(md.nat)

(* C2: out.montgomeryMul(x, y, m) leaves out = x*y*R^(-1) mod m, fully       *)
(* reduced: out < m and out*R = x*y modulo m.                                *)
MontgomeryMulCorrect ==
  (op = "montgomeryMul" /\ m.nat[1] % 2 = 1
     /\ Val(x) < Val(m.nat) /\ Val(y) < Val(m.nat)) =>
    /\ Len(out) = Len(m.nat)
    /\ InRangeLimbs(out)
    /\ Val(out) < Val(m.nat)
    /\ (Val(out) * Radix(m)) % Val(m.nat) = (Val(x) * Val(y)) % Val(m.nat)

(* A two-limb product that needed the final subtraction of m. *)
MontgomeryMulWitness ==
  /\ op = "montgomeryMul"
  /\ Len(m.nat) >= 2
  /\ Val(out) > 0
  /\ LET s == montgomeryOuterLoop([out |-> Zeros(Len(old.out)), overflow |-> 0],
                                  x, y, m, 0)
     IN  Val(s.out) >= Val(m.nat)

(* C7: x.modMul(y, m) leaves x = (x_old * y) mod m and leaves y and m as     *)
(* they were.                                                                *)
ModMulCorrect ==
  (op = "modMul" /\ m.nat[1] % 2 = 1
     /\ Val(old.x) < Val(m.nat) /\ Val(y) < Val(m.nat)) =>
    /\ Len(x) = Len(m.nat)
    /\ InRangeLimbs(x)
    /\ Val(x) = (Val(old.x) * Val(y)) % Val(m.nat)
    /\ y = old.y
    /\ m = old.m

(* A two-limb product larger than the modulus, reduced. *)
ModMulWitness ==
  /\ op = "modMul"
  /\ Len(m.nat) >= 2
  /\ Val(old.x) * Val(y) > Val(m.nat)
  /\ Val(x) = (Val(old.x) * Val(y)) % Val(m.nat)
  /\ Val(x) > 0

-----------------------------------------------------------------------------
(* exp on odd moduli, every reduced base and exponents whose windows take    *)
(* every value.                                                              *)

(* The largest modulus drawn for exp. *)
MaxExpModulus == 17
(* The largest length, in bytes, of an exponent. *)
MaxExpLen == 2

(* Exponent bytes: 0x00, 0x0C, and 0x01, 0x23, .. 0xEF, whose windows take   *)
(* every value from 0 to 15.                                                 *)
ExpBytes == {0, 12} \cup {16 * (2 * k) + 2 * k + 1 : k \in 0 .. 7}
(* The bytes that may precede the last one: 0x00, 0x01 and 0xEF. *)
ExpHeadBytes == {0, 1, 239}

SeqsUpTo(S, n) == UNION {[1 .. k -> S] : k \in 0 .. n}

(* The empty exponent, and every head of up to MaxExpLen - 1 bytes followed  *)
(* by a last byte.                                                           *)
Exponents ==
  {<<>>} \cup {Append(h, b) : h \in SeqsUpTo(ExpHeadBytes, MaxExpLen - 1), b \in ExpBytes}

RECURSIVE ExpVal(_)
ExpVal(b) ==
  IF b = <<>> THEN 0
  ELSE ExpVal(SubSeq(b, 1, Len(b) - 1)) * (2 ^ ExpByteBits) + b[Len(b)]

RECURSIVE PowMod(_, _, _)
PowMod(b, k, n) ==
  IF k = 0 THEN 1 % n
  ELSE LET h == PowMod(b, k \div 2, n)
       IN  (((h * h) % n) * (IF k % 2 = 1 THEN b ELSE 1)) % n

InitExp ==
  /\ op = "init"
  /\ m \in {md \in OddModuli : Val(md.nat) <= MaxExpModulus}
  /\ x \in Reduced(m)
  /\ e \in Exponents
  /\ out \in {NoNat, Junk(MaxLimbs)}
  /\ y = NoNat /\ old = NoOld /\ word = 0 /\ buf = <<>>
  /\ NoWords /\ panicked = FALSE
  /\ NoRest

Exp ==
  /\ op = "init"
  /\ op' = "exp"
  /\ out' = exp(out, x, e, m)
  /\ old' = Snapshot
  /\ UNCHANGED <<m, x, y, word, e, buf, hi, lo, d, quo, rem, panicked, rest>>

NextExp == Exp

SpecExp == InitExp /\ [][NextExp]_vars

(* C1: out.exp(x, e, m) leaves out = x^e mod m with len(m.nat) limbs; the    *)
(* exponent 0 gives 1 and the exponent 1 gives x.                            *)
ExpCorrect ==
  (op = "exp" /\ m.nat[1] % 2 = 1 /\ Len(x) = Len(m.nat) /\ Val(x) < Val(m.nat)) =>
    /\ Len(out) = Len(m.nat)
    /\ InRangeLimbs(out)
    /\ Val(out) = PowMod(Val(x), ExpVal(e), Val(m.nat))
    /\ (ExpVal(e) = 0 /\ Val(m.nat) > 1) => Val(out) = 1
    /\ ExpVal(e) = 1 => Val(out) = Val(x)

(* The example of the tests: 3^12 mod 13 = 1, on a two-limb modulus. *)
ExpWitness ==
  /\ op = "exp"
  /\ Val(m.nat) = 13 /\ Val(x) = 3 /\ e = <<12>>
  /\ Val(out) = 1

-----------------------------------------------------------------------------
(* natFromBytes on every byte slice of up to MaxBytes bytes. *)

(* The largest length of a byte slice. *)
MaxBytes == 4

InitFromBytes ==
  /\ op = "init"
  /\ buf \in SeqsUpTo(Bytes, MaxBytes)
  /\ m = NoMod /\ x = NoNat /\ y = NoNat /\ out = NoNat /\ old = NoOld
  /\ word = 0 /\ e = <<>>
  /\ NoWords /\ panicked = FALSE
  /\ NoRest

NatFromBytes ==
  /\ op = "init"
  /\ op' = "natFromBytes"
  /\ out' = natFromBytes(buf).limbs
  /\ panicked' = natFromBytes(buf).panicked
  /\ UNCHANGED <<m, x, y, old, word, e, buf, hi, lo, d, quo, rem, rest>>

NextFromBytes == NatFromBytes

SpecFromBytes == InitFromBytes /\ [][NextFromBytes]_vars

(* C9: natFromBytes never indexes outside its limbs and returns the nat of   *)
(* ceil(8*L / W) limbs whose value the bytes encode, for every length L.     *)
NatFromBytesCorrect ==
  op = "natFromBytes" =>
    /\ ~panicked
    /\ Len(out) = (Len(buf) * ByteBits + _W - 1) \div _W
    /\ InRangeLimbs(out)
    /\ Val(out) = BytesVal(buf)

(* The same, for the slices whose bits do not fill a whole number of limbs. *)
NatFromBytesUnaligned ==
  (op = "natFromBytes" /\ (Len(buf) = 0 \/ (Len(buf) * ByteBits) % _W # 0)) =>
    /\ ~panicked
    /\ Len(out) = (Len(buf) * ByteBits + _W - 1) \div _W
    /\ InRangeLimbs(out)
    /\ Val(out) = BytesVal(buf)

-----------------------------------------------------------------------------
(* fillBytes of every operand into zeroed buffers of up to MaxBytes bytes. *)

InitFillBytes ==
  /\ op = "init"
  /\ x \in Operands
  /\ \E n \in 0 .. MaxBytes : buf = Zeros(n)
  /\ m = NoMod /\ y = NoNat /\ out = NoNat /\ old = NoOld
  /\ word = 0 /\ e = <<>>
  /\ NoWords /\ panicked = FALSE
  /\ NoRest

FillBytes ==
  /\ op = "init"
  /\ op' = "fillBytes"
  /\ buf' = fillBytes([limbs |-> x, store |-> x], buf).bytes
  /\ panicked' = fillBytes([limbs |-> x, store |-> x], buf).panicked
  /\ UNCHANGED <<m, x, y, out, old, word, e, hi, lo, d, quo, rem, rest>>

NextFillBytes == FillBytes

SpecFillBytes == InitFillBytes /\ [][NextFillBytes]_vars

(* C10: x.fillBytes(buf) never indexes outside buf or x and leaves in buf    *)
(* the big-endian bytes of x: its low bytes when x is wider than buf, and x  *)
(* padded with zeros when buf is wider.                                      *)
FillBytesCorrect ==
  op = "fillBytes" =>
    /\ ~panicked
    /\ BytesVal(buf) = Val(x) % (ByteMod ^ Len(buf))

-----------------------------------------------------------------------------
(* The byte round trip: a.fillBytes(buf), then natFromBytes of the buffer,  *)
(* for every operand a and the zeroed buffer of ceil(W*n / 8) bytes.        *)

(* The length of the buffer that holds n limbs. *)
BufferFor(n) == (_W * n + ByteBits - 1) \div ByteBits

InitRoundTrip ==
  /\ op = "init"
  /\ x \in Operands
  /\ buf = Zeros(BufferFor(Len(x)))
  /\ m = NoMod /\ y = NoNat /\ out = NoNat /\ old = NoOld
  /\ word = 0 /\ e = <<>>
  /\ NoWords /\ panicked = FALSE
  /\ NoRest

RoundTripFill ==
  /\ op = "init"
  /\ op' = "fillBytes"
  /\ buf' = fillBytes([limbs |-> x, store |-> x], buf).bytes
  /\ panicked' = fillBytes([limbs |-> x, store |-> x], buf).panicked
  /\ UNCHANGED <<m, x, y, out, old, word, e, hi, lo, d, quo, rem, rest>>

(* A panic ends the program: natFromBytes runs only after fillBytes returned. *)
RoundTripRead ==
  /\ op = "fillBytes"
  /\ ~panicked
  /\ op' = "natFromBytes"
  /\ out' = natFromBytes(buf).limbs
  /\ panicked' = natFromBytes(buf).panicked
  /\ UNCHANGED <<m, x, y, old, word, e, buf, hi, lo, d, quo, rem, rest>>

NextRoundTrip == RoundTripFill \/ RoundTripRead

SpecRoundTrip == InitRoundTrip /\ [][NextRoundTrip]_vars

(* C11: for every nat a of n limbs and the zeroed buffer of ceil(W*n / 8)   *)
(* bytes, a.fillBytes(buf) and natFromBytes of the result both complete and *)
(* natFromBytes(a.fillBytes(buf)).cmpEq(a) = 1.                             *)
ByteRoundTrip ==
  /\ op = "fillBytes" => ~panicked
  /\ op = "natFromBytes" => (~panicked /\ cmpEq(out, x) = 1)

(* The same, for the lengths whose bits do not fill the buffer exactly. *)
ByteRoundTripUnaligned ==
  (Len(x) = 0 \/ (_W * Len(x)) % ByteBits # 0) =>
    /\ op = "fillBytes" => ~panicked
    /\ op = "natFromBytes" => (~panicked /\ cmpEq(out, x) = 1)

-----------------------------------------------------------------------------
(* The Montgomery round trip of testMontgomeryRoundtrip: m = a + 1, a into   *)
(* Montgomery representation, then montgomeryMul by one.                     *)

(* The nats of n limbs the test generator draws: every limb even. *)
Generated(n) == {l \in [1 .. n -> Limbs] : \A i \in 1 .. n : l[i] % 2 = 0}

(* The n-limb nat one. *)
One(n) == [Zeros(n) EXCEPT ![1] = 1]

InitMontRoundtrip ==
  /\ op = "init"
  /\ \E n \in 1 .. MaxLimbs : x \in Generated(n)
  /\ m = NoMod /\ y = NoNat /\ out = NoNat /\ old = NoOld
  /\ word = 0
  /\ NoWords /\ NoBytes /\ panicked = FALSE
  /\ NoRest

(* m := modulusFromNat(aPlusOne) *)
RoundtripModulus ==
  /\ op = "init"
  /\ op' = "modulusFromNat"
  /\ m' = modulusFromNat(add(1, clone(x), One(Len(x))).limbs)
  /\ UNCHANGED <<x, y, out, old, word, e, buf, hi, lo, d, quo, rem, panicked, rest>>

(* monty := a.clone(); monty.montgomeryRepresentation(m) *)
RoundtripRepresentation ==
  /\ op = "modulusFromNat"
  /\ op' = "montgomeryRepresentation"
  /\ y' = montgomeryRepresentation(clone(x), m)
  /\ UNCHANGED <<m, x, out, old, word, e, buf, hi, lo, d, quo, rem, panicked, rest>>

(* aAgain := monty.clone(); aAgain.montgomeryMul(monty, one, m) *)
RoundtripMul ==
  /\ op = "montgomeryRepresentation"
  /\ op' = "roundtrip"
  /\ out' = montgomeryMul(clone(y), y, One(Len(x)), m)
  /\ UNCHANGED <<m, x, y, old, word, e, buf, hi, lo, d, quo, rem, panicked, rest>>

NextMontRoundtrip == RoundtripModulus \/ RoundtripRepresentation \/ RoundtripMul

SpecMontRoundtrip == InitMontRoundtrip /\ [][NextMontRoundtrip]_vars

(* C12: for every nat a of n >= 1 even limbs and m = modulusFromNat(a + 1),  *)
(* a in Montgomery representation multiplied by the n-limb one is a again:   *)
(* a.cmpEq(aAgain) = 1.                                                      *)
MontgomeryRoundtrip ==
  op = "roundtrip" => cmpEq(x, out) = 1

(* A round trip of a two-limb a with both limbs set has run. *)
MontgomeryRoundtripWitness ==
  /\ op = "roundtrip"
  /\ Len(x) = 2 /\ x[1] > 0 /\ x[2] > 0
  /\ Len(m.nat) = 2
  /\ y # x
  /\ out = x

(* The same, for the a whose top limb is set, so that m has a's length. *)
MontgomeryRoundtripFullLength ==
  (op = "roundtrip" /\ x[Len(x)] # 0) => cmpEq(x, out) = 1

-----------------------------------------------------------------------------
(* The properties of nat_test.go over modAdd and modSub: operands a and b    *)
(* of one length and the modulus of that length whose limbs are all _MASK.   *)

(* The operands of n limbs, limbs below _MASK: every one up to two limbs,    *)
(* and from three limbs on those with limbs 0, 1 and _MASK - 1.              *)
TestLimbs(n) == IF n <= 2 THEN 0 .. (_MASK - 1) ELSE {0, 1, _MASK - 1}
TestOperands(n) == [1 .. n -> TestLimbs(n)]

(* m := modulusFromNat(&nat{mLimbs}), every limb of mLimbs set to _MASK. *)
TestModulus(n) == modulusFromNat([i \in 1 .. n |-> _MASK])

InitQuick ==
  /\ op = "init"
  /\ \E n \in 1 .. MaxLimbs :
       /\ x \in TestOperands(n)
       /\ y \in TestOperands(n)
       /\ m = TestModulus(n)
  /\ out = NoNat /\ old = NoOld /\ word = 0
  /\ NoWords /\ NoBytes /\ panicked = FALSE
  /\ NoRest

(* testModSubThenAddIdentity: a.modSub(b, m) ... *)
SubThenAddSub ==
  /\ op = "init"
  /\ op' = "subThenAdd.modSub"
  /\ x' = modSub(x, y, m)
  /\ old' = Snapshot
  /\ UNCHANGED <<m, y, out, word, e, buf, hi, lo, d, quo, rem, panicked, rest>>

(* ... then a.modAdd(b, m). *)
SubThenAddAdd ==
  /\ op = "subThenAdd.modSub"
  /\ op' = "subThenAdd"
  /\ x' = modAdd(x, y, m)
  /\ UNCHANGED <<m, y, out, old, word, e, buf, hi, lo, d, quo, rem, panicked, rest>>

(* testModAddCommutative: x becomes aPlusB and y becomes bPlusA. *)
AddCommutative ==
  /\ op = "init"
  /\ op' = "addCommutative"
  /\ x' = modAdd(clone(x), y, m)
  /\ y' = modAdd(clone(y), x, m)
  /\ old' = Snapshot
  /\ UNCHANGED <<m, out, word, e, buf, hi, lo, d, quo, rem, panicked, rest>>

NextQuick == SubThenAddSub \/ SubThenAddAdd \/ AddCommutative

SpecQuick == InitQuick /\ [][NextQuick]_vars

(* C13: for a and b of n limbs below _MASK and the n-limb modulus of limbs   *)
(* _MASK, a.modSub(b, m) then a.modAdd(b, m) leaves a as it was.             *)
SubThenAddIdentity ==
  op = "subThenAdd" => (cmpEq(x, old.x) = 1 /\ x = old.x)

(* An identity in which modSub borrowed and added m back. *)
SubThenAddWitness ==
  /\ op = "subThenAdd"
  /\ Len(x) = 2
  /\ Val(old.x) < Val(y)
  /\ x = old.x

(* C14: for a and b of n limbs below _MASK and the n-limb modulus of limbs   *)
(* _MASK, a.clone().modAdd(b, m) and b.clone().modAdd(a, m) are equal.       *)
ModAddCommutative ==
  op = "addCommutative" => (cmpEq(x, y) = 1 /\ x = y)

(* A commutative pair whose sum wrapped around the modulus. *)
ModAddCommutativeWitness ==
  /\ op = "addCommutative"
  /\ Len(x) = 2
  /\ old.x # old.y
  /\ Val(old.x) + Val(old.y) > Val(m.nat)
  /\ x = y
  /\ Val(x) = Val(old.x) + Val(old.y) - Val(m.nat)

-----------------------------------------------------------------------------
(* Conversion to and from big.Int, whose Bits are full words. *)

(* The words of the big.Int of value v: least significant first, no zero   *)
(* word on top (big.Int keeps its words normalised).                       *)
RECURSIVE BigWords(_)
BigWords(v) == IF v = 0 THEN <<>> ELSE <<v % WordMod>> \o BigWords(v \div WordMod)

RECURSIVE WordsVal(_)
WordsVal(ws) == IF ws = <<>> THEN 0 ELSE ws[1] + WordMod * WordsVal(Tail(ws))

(* x.toBig(): the big.Int of x's value. *)
toBig(xl) == BigWords(Val(xl))

(* natFromBig's loop body that leaves the bits above _W in the first limb. *)
natFromBigStepNoMask(s, xi) ==
  IF s.panicked THEN s
  ELSE IF ~InRange(s.limbs, s.outI) \/ ~InRange(s.limbs, s.outI + 1)
  THEN [s EXCEPT !.panicked = TRUE]
  ELSE
    LET l1 == [s.limbs EXCEPT ![s.outI + 1] = BitOr(@, Shl(xi, s.shift))]
        l2 == [l1 EXCEPT ![s.outI + 2] = Shr(xi, _W - s.shift)]
        wrap == s.shift + 1 >= _W
    IN  [limbs |-> l2,
         outI |-> IF wrap THEN s.outI + 2 ELSE s.outI + 1,
         shift |-> IF wrap THEN s.shift + 1 - _W ELSE s.shift + 1,
         panicked |-> FALSE,
         touched |-> Append(s.touched, {s.outI, s.outI + 1})]

(* natFromBig's loop body for the word xi; s.outI counts from 0, and        *)
(* s.touched collects, word by word, the indices of the limbs written.      *)
natFromBigStep(s, xi) ==
  IF s.panicked THEN s
  ELSE IF ~InRange(s.limbs, s.outI) \/ ~InRange(s.limbs, s.outI + 1)
  THEN [s EXCEPT !.panicked = TRUE]
  ELSE
    LET l1 == [s.limbs EXCEPT ![s.outI + 1] = BitOr(@, BitAnd(Shl(xi, s.shift), _MASK))]
        l2 == [l1 EXCEPT ![s.outI + 2] = Shr(xi, _W - s.shift)]
        wrap == s.shift + 1 >= _W
    IN  [limbs |-> l2,
         outI |-> IF wrap THEN s.outI + 2 ELSE s.outI + 1,
         shift |-> IF wrap THEN s.shift + 1 - _W ELSE s.shift + 1,
         panicked |-> FALSE,
         touched |-> Append(s.touched, {s.outI, s.outI + 1})]

RECURSIVE natFromBigLoop(_, _, _)
natFromBigLoop(s, xLimbs, i) ==
  IF i <= Len(xLimbs)
  THEN natFromBigLoop(natFromBigStep(s, xLimbs[i]), xLimbs, i + 1)
  ELSE s

(* natFromBig of the big.Int whose Bits are xLimbs. *)
natFromBig(xLimbs) ==
  LET bitSize == Len(xLimbs) * UintSize
      requiredLimbs == (bitSize + _W - 1) \div _W
  IN  natFromBigLoop([limbs |-> Zeros(requiredLimbs), outI |-> 0, shift |-> 0,
                      panicked |-> FALSE, touched |-> <<>>], xLimbs, 1)


(* The largest number of words of a big.Int drawn directly. *)
MaxBigWords == 3

(* Word sequences: every one up to two words, and longer ones over the      *)
(* words 0, 1, _MASK, 2^_W and the full word.                               *)
BigInputs ==
  UNION {[1 .. k -> IF k <= 2 THEN Words ELSE {0, 1, _MASK, LimbMod, WordMod - 1}] :
         k \in 0 .. MaxBigWords}

(* Either a nat to convert there and back, or the words of a big.Int. *)
InitBig ==
  /\ \/ op = "init" /\ x \in Operands /\ big = <<>>
     \/ op = "words" /\ x = NoNat /\ big \in BigInputs
  /\ store = <<>> /\ trace = <<>>
  /\ m = NoMod /\ y = NoNat /\ out = NoNat /\ old = NoOld /\ word = 0
  /\ NoWords /\ NoBytes /\ panicked = FALSE

(* aBig := a.toBig() *)
ToBig ==
  /\ op = "init"
  /\ op' = "toBig"
  /\ big' = toBig(x)
  /\ UNCHANGED <<m, x, y, out, old, word, e, buf, hi, lo, d, quo, rem, panicked, store, trace>>

(* natFromBig(aBig) *)
NatFromBig ==
  /\ op \in {"toBig", "words"}
  /\ op' = IF op = "toBig" THEN "fromBig" ELSE "fromWords"
  /\ out' = natFromBig(big).limbs
  /\ panicked' = natFromBig(big).panicked
  /\ UNCHANGED <<m, x, y, old, word, e, buf, hi, lo, d, quo, rem, big, store, trace>>

NextBig == ToBig \/ NatFromBig

SpecBig == InitBig /\ [][NextBig]_vars

(* C15: natFromBig(a.toBig()) has every limb below 2^W, a's value and        *)
(* cmpEq(a) = 1; natFromBig of k words returns ceil(UintSize*k / W) limbs    *)
(* and every word is written to one or two of them.                          *)
BigRoundTrip ==
  /\ op = "fromBig" =>
       /\ ~panicked
       /\ InRangeLimbs(out)
       /\ Val(out) = Val(x)
       /\ cmpEq(out, x) = 1
  /\ op \in {"fromBig", "fromWords"} =>
       /\ ~panicked
       /\ Len(out) = (UintSize * Len(big) + _W - 1) \div _W
       /\ Len(natFromBig(big).touched) = Len(big)
       /\ \A i \in 1 .. Len(big) :
            /\ Cardinality(natFromBig(big).touched[i]) \in {1, 2}
            /\ \A j \in natFromBig(big).touched[i] : j >= 0 /\ j < Len(out)

(* A three-limb nat with its top limb set went to two words and back. *)
BigRoundTripWitness ==
  /\ op = "fromBig"
  /\ Len(x) = 3 /\ x[3] > 0 /\ x[1] > 0
  /\ Len(big) >= 2
  /\ out # x
  /\ Val(out) = Val(x)

(* natFromBig keeps the value of any words, also those that fill the limbs  *)
(* exactly (k = W words).                                                   *)
BigWordsValue ==
  op = "fromWords" => (~panicked /\ InRangeLimbs(out) /\ Val(out) = WordsVal(big))

(* W words, which fill W + 1 limbs exactly, were converted. *)
BigWordsAligned ==
  op = "fromWords" /\ Len(big) = _W /\ big[_W] = WordMod - 1

-----------------------------------------------------------------------------
(* expand and expandFor, called any number of times on one nat. *)

(* out.expandFor(m) *)
expandFor(xs, md) == expand(xs, Len(md.nat))

(* A nat as it is allocated: its slice fills its backing array. *)
InitExpand ==
  /\ op = "init"
  /\ x \in Operands
  /\ store = x
  /\ big = <<>> /\ trace = <<>>
  /\ m = NoMod /\ y = NoNat /\ out = NoNat /\ old = NoOld /\ word = 0
  /\ NoWords /\ NoBytes /\ panicked = FALSE

(* x.expand(size); word keeps the size asked for. *)
Expand ==
  \E size \in 0 .. MaxLimbs :
    /\ op' = "expand"
    /\ x' = expand([limbs |-> x, store |-> store], size).limbs
    /\ store' = expand([limbs |-> x, store |-> store], size).store
    /\ word' = size
    /\ old' = Snapshot
    /\ UNCHANGED <<m, y, out, e, buf, hi, lo, d, quo, rem, panicked, big, trace>>

(* x.expandFor(m), for any modulus m. *)
ExpandFor ==
  \E md \in Moduli :
    /\ op' = "expand"
    /\ x' = expandFor([limbs |-> x, store |-> store], md).limbs
    /\ store' = expandFor([limbs |-> x, store |-> store], md).store
    /\ word' = Len(md.nat)
    /\ old' = Snapshot
    /\ UNCHANGED <<m, y, out, e, buf, hi, lo, d, quo, rem, panicked, big, trace>>

NextExpand == Expand \/ ExpandFor

SpecExpand == InitExpand /\ [][NextExpand]_vars

(* C16: after any sequence of expand calls, x.expand(n) leaves x with n     *)
(* limbs, the limbs it had before the call unchanged and every limb the     *)
(* call exposed zero.                                                       *)
ExpandCorrect ==
  op = "expand" =>
    /\ Len(x) = word
    /\ \A i \in 1 .. Min(Len(old.x), word) : x[i] = old.x[i]
    /\ \A i \in (Len(old.x) + 1) .. word : x[i] = 0

(* The same without the zeroes: the length and the limbs kept. *)
ExpandKeeps ==
  op = "expand" =>
    /\ Len(x) = word
    /\ \A i \in 1 .. Min(Len(old.x), word) : x[i] = old.x[i]

(* The slice is always the front of its backing array. *)
ExpandStore ==
  Len(x) <= Len(store) /\ x = SubSeq(store, 1, Len(x))


-----------------------------------------------------------------------------
(* The control flow of exp: the operations a call runs and the indices of   *)
(* the limbs and table entries they read and write.                         *)
(*                                                                          *)
(* Every operation is given its footprint, the indices its loops visit in   *)
(* order, computed from the operands as the loops' conditions compute them. *)
(* The traced exp runs the loops of exp on the same state and records, next *)
(* to each step, the footprint of the call it makes.                        *)

(* The indices 0 .. n - 1 a loop "for i := 0; i < n; i++" visits. *)
Indices(n) == [i \in 1 .. n |-> i - 1]

(* The indices a loop over two nats visits: up to the shorter one. *)
pairFootprint(xl, yl) == Indices(Min(Len(xl), Len(yl)))

assignFootprint(xl, yl) == pairFootprint(xl, yl)

(* x.shiftIn(y, m): the branch on the modulus' size, and for two limbs and  *)
(* more the limbs moved up and the loops of mulSub, cmpGeq, add and sub.    *)
shiftInFootprint(xl, md) ==
  IF Len(md.nat) = 0 THEN [path |-> "return"]
  ELSE IF Len(md.nat) = 1 THEN [path |-> "div", limbs |-> <<0>>]
  ELSE [path |-> "estimate",
        top |-> <<Len(md.nat) - 1, Len(md.nat) - 2>>,
        shift |-> [i \in 1 .. (Len(md.nat) - 1) |-> Len(md.nat) - i],
        mulSub |-> pairFootprint(xl, md.nat),
        cmpGeq |-> pairFootprint(xl, md.nat),
        add |-> pairFootprint(xl, md.nat),
        sub |-> pairFootprint(xl, md.nat)]

(* x.montgomeryRepresentation(m): one shiftIn for every limb of m. *)
montgomeryRepresentationFootprint(xl, md) ==
  [i \in 1 .. Len(md.nat) |-> shiftInFootprint(xl, md)]

(* out.montgomeryMul(x, y, m): the limbs cleared, for every limb of x the   *)
(* limbs the inner loop visits and the top limb written, then the loops of  *)
(* cmpGeq and sub.                                                          *)
montgomeryMulFootprint(outl, xl, yl, md) ==
  [clear |-> Indices(Len(outl)),
   outer |-> [i \in 1 .. Len(xl) |->
                [x |-> i - 1,
                 inner |-> Indices(Min(Len(yl), Min(Len(md.nat), Len(outl)))),
                 top |-> Len(outl) - 1]],
   cmpGeq |-> pairFootprint(outl, md.nat),
   sub |-> pairFootprint(outl, md.nat)]

(* The loop that fills exp's table: entry i is written from entries i - 1   *)
(* and 0.                                                                   *)
RECURSIVE expTableTrace(_, _, _)
expTableTrace(xs, md, i) ==
  IF i < Len(xs)
  THEN <<[entry |-> i, from |-> <<i - 1, 0>>,
          mul |-> montgomeryMulFootprint(xs[i + 1], xs[i], xs[1], md)]>>
       \o expTableTrace(xs, md, i + 1)
  ELSE <<>>

(* A table lookup that reads only the entry the window names. *)
expSelectTraceIndexed(selectedX, xs, window, i) ==
  IF window > 0
  THEN <<[entry |-> window - 1, limbs |-> assignFootprint(selectedX, xs[window])]>>
  ELSE <<>>

(* The table lookup: entry i is read whatever the window is. *)
RECURSIVE expSelectTrace(_, _, _, _)
expSelectTrace(selectedX, xs, window, i) ==
  IF i < Len(xs)
  THEN <<[entry |-> i, limbs |-> assignFootprint(selectedX, xs[i + 1])]>>
       \o expSelectTrace(selectedX, xs, window, i + 1)
  ELSE <<>>

(* The body of exp's loop for the window of byte b at shift s.j. *)
expWindowTrace(s, xs, b, md) ==
  [squarings |-> <<montgomeryMulFootprint(s.scratch, s.out, s.out, md),
                   montgomeryMulFootprint(s.out, s.scratch, s.scratch, md),
                   montgomeryMulFootprint(s.scratch, s.out, s.out, md),
                   montgomeryMulFootprint(s.out, s.scratch, s.scratch, md)>>,
   lookup |-> expSelectTrace(s.selectedX, xs, expWindowOf(b, s.j), 0),
   multiply |-> montgomeryMulFootprint(s.scratch, s.out, s.selectedX, md),
   assign |-> assignFootprint(s.out, s.scratch)]

(* The inner loop of exp, with the windows run so far. *)
RECURSIVE expByteTraced(_, _, _, _)
expByteTraced(t, xs, b, md) ==
  IF t.s.j >= 0
  THEN expByteTraced([s |-> expWindow(t.s, xs, b, md),
                      windows |-> Append(t.windows, expWindowTrace(t.s, xs, b, md))],
                     xs, b, md)
  ELSE t

(* The outer loop of exp, with the windows run so far. *)
RECURSIVE expLoopTraced(_, _, _, _)
expLoopTraced(t, xs, bytes, md) ==
  IF t.s.k <= Len(bytes)
  THEN expLoopTraced(
         [expByteTraced([t EXCEPT !.s.j = ExpByteBits - WindowBits], xs, bytes[t.s.k],
                        md)
            EXCEPT !.s.k = t.s.k + 1],
         xs, bytes, md)
  ELSE t

(* The steps of exp before its loop, given out as expanded and the table. *)
expStartTrace(outl, out0, xl, xs, md) ==
  [expand |-> [grow |-> Len(outl) < Len(md.nat), size |-> Len(md.nat)],
   clone |-> Indices(Len(xl)),
   representation |-> montgomeryRepresentationFootprint(clone(xl), md),
   table |-> expTableTrace(xs, md, 1),
   clear |-> Indices(Len(out0)),
   one |-> montgomeryRepresentationFootprint(out0, md)]

(* The steps of exp after its loop. *)
expFinishTrace(s, md) ==
  [clear |-> Indices(Len(s.scratch)),
   clone |-> Indices(Len(s.out)),
   mul |-> montgomeryMulFootprint(s.out, clone(s.out), s.scratch, md)]

expTraceOf(outl, out0, xl, xs, t, md) ==
  [start |-> expStartTrace(outl, out0, xl, xs, md),
   windows |-> t.windows,
   finish |-> expFinishTrace(t.s, md)]

expTraceTable(outl, out0, xl, xs, bytes, md) ==
  expTraceOf(outl, out0, xl, xs,
             expLoopTraced([s |-> expStart(out0, md), windows |-> <<>>], xs, bytes, md),
             md)

(* out.exp(x, e, m): what the call ran. *)
expTrace(outl, xl, bytes, md) ==
  expTraceTable(outl, expand([limbs |-> outl, store |-> outl], Len(md.nat)).limbs, xl,
                expTable(<<montgomeryRepresentation(clone(xl), md)>>, md), bytes, md)

(* exp on odd moduli, every reduced base, and exponents of every length up  *)
(* to MaxExpLen whose windows are 0, 1 or 15.                               *)

(* Exponent bytes 0x00 and 0xF1. *)
TraceBytes == {0, 241}

InitExpTrace ==
  /\ op = "init"
  /\ m \in {md \in OddModuli : Val(md.nat) <= MaxExpModulus}
  /\ x \in Reduced(m)
  /\ e \in SeqsUpTo(TraceBytes, MaxExpLen)
  /\ out \in {NoNat, Junk(MaxLimbs)}
  /\ y = NoNat /\ old = NoOld /\ word = 0 /\ buf = <<>>
  /\ NoWords /\ panicked = FALSE
  /\ NoRest

ExpTraced ==
  /\ op = "init"
  /\ op' = "exp"
  /\ out' = exp(out, x, e, m)
  /\ trace' = expTrace(out, x, e, m)
  /\ old' = Snapshot
  /\ UNCHANGED <<m, x, y, word, e, buf, hi, lo, d, quo, rem, panicked, big, store>>

NextExpTrace == ExpTraced

SpecExpTrace == InitExpTrace /\ [][NextExpTrace]_vars

(* The modulus 2^(W*(n-1)) + 1 of n limbs (1 for one limb), and that modulus *)
(* for n = 0.                                                                *)
PlainModulus(n) == modulusFromNat([i \in 1 .. n |-> IF i = 1 \/ i = n THEN 1 ELSE 0])

(* What exp runs on an all-zero base and exponent of the given lengths. *)
PlainTrace(outLen, xLen, eLen, mLen) ==
  expTrace(Zeros(outLen), Zeros(xLen), Zeros(eLen), PlainModulus(mLen))

-----------------------------------------------------------------------------
(* Sequences of calls: every operation that writes limbs, called in any     *)
(* order on a receiver x with the operand y and the modulus m.              *)

(* The largest announced length of the nats in a sequence of calls. *)
MaxSeqLimbs == 2

(* The nats of n limbs whose limbs are all in S. *)
LimbPatterns(n, S) == [1 .. n -> S]

(* Odd moduli of every length up to MaxSeqLimbs, of limbs 1 and _MASK. *)
SeqModuli ==
  {modulusFromNat(l) : l \in UNION {LimbPatterns(n, {1, _MASK}) : n \in 1 .. MaxSeqLimbs}}

(* The exponent 0xF1. *)
SeqExponent == <<241>>

InitSeq ==
  /\ op = "init"
  /\ m \in SeqModuli
  /\ x \in LimbPatterns(Len(m.nat), Limbs)
  /\ y \in LimbPatterns(Len(m.nat), {0, _MASK})
  /\ out = NoNat /\ old = NoOld /\ word = 0
  /\ NoWords /\ NoBytes /\ panicked = FALSE
  /\ NoRest

(* What every call of a sequence leaves alone. *)
seqRest == <<m, y, out, old, word, e, buf, hi, lo, d, quo, rem, panicked, rest>>

SeqAdd ==
  /\ \E on \in {0, 1} : x' = add(on, x, y).limbs
  /\ op' = "add"
  /\ UNCHANGED seqRest

SeqSub ==
  /\ \E on \in {0, 1} : x' = sub(on, x, y).limbs
  /\ op' = "sub"
  /\ UNCHANGED seqRest

SeqAssign ==
  /\ \E on \in {0, 1} : x' = assign(on, x, y)
  /\ op' = "assign"
  /\ UNCHANGED seqRest

SeqMulSub ==
  /\ \E q \in Words : x' = mulSub(q, x, y).limbs
  /\ op' = "mulSub"
  /\ UNCHANGED seqRest

SeqShiftIn ==
  /\ \E yw \in Limbs : x' = shiftIn(x, yw, m)
  /\ op' = "shiftIn"
  /\ UNCHANGED seqRest

SeqMod ==
  /\ x' = mod(x, y, m)
  /\ op' = "mod"
  /\ UNCHANGED seqRest

SeqModAdd ==
  /\ x' = modAdd(x, y, m)
  /\ op' = "modAdd"
  /\ UNCHANGED seqRest

SeqModSub ==
  /\ x' = modSub(x, y, m)
  /\ op' = "modSub"
  /\ UNCHANGED seqRest

SeqMontgomeryRepresentation ==
  /\ x' = montgomeryRepresentation(x, m)
  /\ op' = "montgomeryRepresentation"
  /\ UNCHANGED seqRest

SeqMontgomeryMul ==
  /\ x' = montgomeryMul(x, y, y, m)
  /\ op' = "montgomeryMul"
  /\ UNCHANGED seqRest

SeqModMul ==
  /\ x' = modMul(x, y, m)
  /\ op' = "modMul"
  /\ UNCHANGED seqRest

SeqExp ==
  /\ x' = exp(x, y, SeqExponent, m)
  /\ op' = "exp"
  /\ UNCHANGED seqRest

NextSeq ==
  \/ SeqAdd \/ SeqSub \/ SeqAssign \/ SeqMulSub \/ SeqShiftIn \/ SeqMod
  \/ SeqModAdd \/ SeqModSub \/ SeqMontgomeryRepresentation \/ SeqMontgomeryMul
  \/ SeqModMul \/ SeqExp

SpecSeq == InitSeq /\ [][NextSeq]_vars

(* C18: after any sequence of calls every limb of every nat is below 2^W. *)
LimbInvariant ==
  InRangeLimbs(x) /\ InRangeLimbs(y) /\ InRangeLimbs(out) /\ InRangeLimbs(m.nat)


(* The calls whose receiver must be reduced modulo m. *)
NeedsReduced == {"shiftIn", "montgomeryRepresentation"}

(* C18, amended: a call on nats whose limbs are all below 2^W leaves every  *)
(* limb of every nat below 2^W, provided the receiver of shiftIn and of      *)
(* montgomeryRepresentation is reduced modulo m; so the limbs stay below    *)
(* 2^W along every sequence of such calls.                                  *)
LimbInvariantReduced ==
  [][(LimbInvariant /\ (op' \in NeedsReduced => Val(x) < Val(m.nat))) => LimbInvariant']_vars

(* A sequence of calls that has reached, by an exponentiation, a receiver   *)
(* of two limbs with its top limb set in every bit.                         *)
LimbInvariantWitness ==
  /\ op = "exp"
  /\ Len(x) = 2 /\ x[2] = _MASK
  /\ LimbInvariant


-----------------------------------------------------------------------------
(* minusInverseModW at every word width.                                    *)
(*                                                                          *)
(* _W is bits.UintSize - 1, 31 or 63 in the source.  How many Newton        *)
(* iterations are enough depends on the width, so the function is modelled  *)
(* here with the width w as a parameter, a word having w + 1 bits, and run  *)
(* at every width from 3 to MaxInverseW.                                    *)

(* The largest width _W the inverse is computed at. *)
MaxInverseW == 13
(* The width _W of a limb on a 64-bit platform. *)
SourceW == 63

(* 2^UintSize for _W = w. *)
WordModAt(w) == 2 ^ (w + 1)

(* The Newton step with the sign of the correction flipped. *)
newtonStepPlus(w, xw, yw) ==
  ((yw * ((2 + ((xw * yw) % WordModAt(w))) % WordModAt(w))) % WordModAt(w)) % (2 ^ w)

(* y = (y * (2 - x*y)) & _MASK, in words of w + 1 bits. *)
newtonStep(w, xw, yw) ==
  ((yw * ((WordModAt(w) + 2 - ((xw * yw) % WordModAt(w))) % WordModAt(w))) % WordModAt(w))
    % (2 ^ w)

(* y after n iterations, starting from y = x. *)
RECURSIVE newtonAt(_, _, _)
newtonAt(w, xw, n) == IF n = 0 THEN xw ELSE newtonStep(w, xw, newtonAt(w, xw, n - 1))

(* minusInverseModW(x) for _W = w: (1 << _W) - y. *)
minusInverseModWAt(w, xw) == (2 ^ w - newtonAt(w, xw, NewtonIterations)) % WordModAt(w)

InitInverse ==
  /\ op = "init"
  /\ word \in 3 .. MaxInverseW
  /\ d \in {v \in 1 .. (2 ^ word - 1) : v % 2 = 1}
  /\ hi = 0 /\ lo = 0 /\ quo = 0 /\ rem = 0
  /\ m = NoMod /\ x = NoNat /\ y = NoNat /\ out = NoNat /\ old = NoOld
  /\ NoBytes /\ panicked = FALSE
  /\ NoRest

MinusInverseModW ==
  /\ op = "init"
  /\ op' = "minusInverseModW"
  /\ quo' = minusInverseModWAt(word, d)
  /\ UNCHANGED <<m, x, y, out, old, word, e, buf, hi, lo, d, rem, panicked, rest>>

NextInverse == MinusInverseModW

SpecInverse == InitInverse /\ [][NextInverse]_vars

(* The bits of the inverse that are right after n iterations: 3 at the      *)
(* start, since x * x = 1 modulo 8 for odd x, and twice as many after every *)
(* iteration.                                                               *)
NewtonBits(n) == 3 * 2 ^ n

(* C19: for every odd word x in [1, 2^W), minusInverseModW(x) is in         *)
(* [1, 2^W) and (x * m0inv + 1) mod 2^W = 0; after n iterations x * y = 1   *)
(* modulo 2^min(W, 3 * 2^n), so the five iterations, good for 96 bits, are  *)
(* enough for W = 63.                                                       *)
MinusInverseCorrect ==
  op = "minusInverseModW" =>
    /\ quo \in 1 .. (2 ^ word - 1)
    /\ (d * quo + 1) % (2 ^ word) = 0
    /\ \A n \in 0 .. NewtonIterations :
         (d * newtonAt(word, d, n)) % (2 ^ Min(word, NewtonBits(n))) = 1
    /\ NewtonBits(NewtonIterations) >= SourceW

(* An inverse at the largest width that three iterations reach and two do   *)
(* not.                                                                     *)
MinusInverseWitness ==
  /\ op = "minusInverseModW"
  /\ word = MaxInverseW
  /\ (d * quo + 1) % (2 ^ word) = 0
  /\ (d * newtonAt(word, d, 2)) % (2 ^ word) # 1
  /\ (d * newtonAt(word, d, 3)) % (2 ^ word) = 1

(* At the width of the limbs of the other operations, the function is the   *)
(* one modulusFromNat calls.                                                *)
MinusInverseAgrees ==
  (op = "minusInverseModW" /\ word = _W) => quo = minusInverseModW(d)


-----------------------------------------------------------------------------
(* The accumulator of montgomeryMul.                                        *)
(*                                                                          *)
(* The inner loop adds two double-word products, a limb of out and the      *)
(* carry into z_hi:z_lo, discarding the carries out of z_hi, and packs the  *)
(* next carry from both words.  The steps below are the steps of            *)
(* montgomeryMul with what the code discards kept.                          *)

(* f computed without the mask. *)
montgomeryFNoMask(s, xi, yl, md) ==
  WMul(WAdd(s.out[1], WMul(xi, yl[1])), md.m0inv)

(* f := ((out.limbs[0] + x.limbs[i]*y.limbs[0]) * m.m0inv) & _MASK *)
montgomeryF(s, xi, yl, md) ==
  BitAnd(WMul(WAdd(s.out[1], WMul(xi, yl[1])), md.m0inv), _MASK)

(* The accumulator at the end of one step of the inner loop, at limb j      *)
(* (counted from 0), and the carries out of the three additions into z_hi.  *)
montgomeryAcc(s, xi, f, yl, md, j) ==
  LET hi1 == MulHi(xi, yl[j + 1])
      lo1 == MulLo(xi, yl[j + 1])
      c1 == AddCarry(s.out[j + 1], lo1, 0)
      zlo1 == AddLo(s.out[j + 1], lo1, 0)
      zhi1 == AddLo(0, hi1, c1)
      hi2 == MulHi(f, md.nat[j + 1])
      lo2 == MulLo(f, md.nat[j + 1])
      c2 == AddCarry(zlo1, lo2, 0)
      zlo2 == AddLo(zlo1, lo2, 0)
      zhi2 == AddLo(zhi1, hi2, c2)
      c3 == AddCarry(zlo2, s.carry, 0)
      zlo3 == AddLo(zlo2, s.carry, 0)
      zhi3 == AddLo(zhi2, 0, c3)
  IN  [z_hi |-> zhi3,
       z_lo |-> zlo3,
       wraps |-> AddCarry(0, hi1, c1) + AddCarry(zhi1, hi2, c2) + AddCarry(zhi2, 0, c3),
       carry |-> BitOr(Shr(zlo3, _W), Shl(zhi3, 1))]

(* The accumulators of the inner loop, from limb j on. *)
RECURSIVE montgomeryInnerAccs(_, _, _, _, _, _)
montgomeryInnerAccs(s, xi, f, yl, md, j) ==
  IF j < Len(yl) /\ j < Len(md.nat) /\ j < Len(s.out)
  THEN <<montgomeryAcc(s, xi, f, yl, md, j)>>
       \o montgomeryInnerAccs(montgomeryInner(s, xi, f, yl, md, j), xi, f, yl, md, j + 1)
  ELSE <<>>

(* One iteration of the outer loop, at limb i (counted from 0): the         *)
(* accumulators of its inner loop, overflow + carry as a number, and the    *)
(* overflow it leaves.                                                      *)
montgomeryOuterAcc(s, xl, yl, md, i) ==
  [inner |-> montgomeryInnerAccs([out |-> s.out, carry |-> 0], xl[i + 1],
                                 montgomeryF(s, xl[i + 1], yl, md), yl, md, 0),
   z |-> s.overflow
           + montgomeryInnerLoop([out |-> s.out, carry |-> 0], xl[i + 1],
                                 montgomeryF(s, xl[i + 1], yl, md), yl, md, 0).carry,
   overflow |-> montgomeryOuter(s, xl, yl, md, i).overflow]

(* The iterations of the outer loop, from limb i on. *)
RECURSIVE montgomeryOuterAccs(_, _, _, _, _)
montgomeryOuterAccs(s, xl, yl, md, i) ==
  IF i < Len(xl)
  THEN <<montgomeryOuterAcc(s, xl, yl, md, i)>>
       \o montgomeryOuterAccs(montgomeryOuter(s, xl, yl, md, i), xl, yl, md, i + 1)
  ELSE <<>>

(* out.montgomeryMul(x, y, m): what its loops accumulate. *)
montgomeryAccumulators(outl, xl, yl, md) ==
  montgomeryOuterAccs([out |-> Zeros(Len(outl)), overflow |-> 0], xl, yl, md, 0)

(* The accumulator z_hi:z_lo as a number. *)
AccVal(a) == a.z_hi * WordMod + a.z_lo

(* An accumulator below 2^(2*UintSize - 1), none of whose additions into    *)
(* z_hi wrapped and whose packed carry is all of it above the low W bits.   *)
AccInBounds(a) ==
  /\ AccVal(a) < 2 ^ (2 * UintSize - 1)
  /\ a.wraps = 0
  /\ a.carry = AccVal(a) \div LimbMod

(* An outer iteration whose accumulators are in bounds, whose overflow +    *)
(* carry fits a word and which leaves overflow 0 or 1.                      *)
OuterInBounds(o) ==
  /\ \A j \in 1 .. Len(o.inner) : AccInBounds(o.inner[j])
  /\ o.z < WordMod
  /\ o.overflow \in {0, 1}

AllInBounds(accs) == \A i \in 1 .. Len(accs) : OuterInBounds(accs[i])

(* An accumulator that reaches the top bit it may use. *)
SomeTopBit(accs) ==
  \E i \in 1 .. Len(accs) : \E j \in 1 .. Len(accs[i].inner) :
    AccVal(accs[i].inner[j]) >= 2 ^ (2 * UintSize - 2)

(* C20: in montgomeryMul with x, y < m and limbs below 2^W, at every step   *)
(* of the inner loop z_hi:z_lo is below 2^(2*UintSize - 1), no addition     *)
(* into z_hi wraps and the packed carry is the whole of z_hi:z_lo above its *)
(* low W bits; after every outer iteration overflow + carry fits a word     *)
(* and overflow is 0 or 1.                                                  *)
MontgomeryAccumulator ==
  (op = "montgomeryMul" /\ m.nat[1] % 2 = 1
     /\ Val(x) < Val(m.nat) /\ Val(y) < Val(m.nat)
     /\ InRangeLimbs(x) /\ InRangeLimbs(y)) =>
    AllInBounds(montgomeryAccumulators(old.out, x, y, m))

(* A two-limb multiplication whose accumulator reaches the top bit it may   *)
(* use, and whose second outer iteration leaves overflow = 1.               *)
MontgomeryAccumulatorWitness ==
  /\ op = "montgomeryMul" /\ Len(m.nat) = 2
  /\ Val(x) < Val(m.nat) /\ Val(y) < Val(m.nat)
  /\ SomeTopBit(montgomeryAccumulators(old.out, x, y, m))
  /\ montgomeryAccumulators(old.out, x, y, m)[2].overflow = 1


-----------------------------------------------------------------------------
(* add and sub with either choice, on every nat x of up to MaxSeqLimbs      *)
(* limbs and the operands y of its length with limbs 0, 1 and _MASK.        *)

InitCond ==
  /\ op = "init"
  /\ \E n \in 0 .. MaxSeqLimbs :
       /\ x \in LimbPatterns(n, Limbs)
       /\ y \in LimbPatterns(n, {0, 1, _MASK})
  /\ m = NoMod /\ out = NoNat /\ old = NoOld /\ word = 0
  /\ NoWords /\ NoBytes /\ panicked = FALSE
  /\ NoRest

CondAdd ==
  /\ op = "init"
  /\ op' = "add"
  /\ \E on \in {0, 1} :
       /\ word' = on
       /\ x' = add(on, x, y).limbs
       /\ quo' = add(on, x, y).c
  /\ old' = Snapshot
  /\ UNCHANGED <<m, y, out, e, buf, hi, lo, d, rem, panicked, rest>>

CondSub ==
  /\ op = "init"
  /\ op' = "sub"
  /\ \E on \in {0, 1} :
       /\ word' = on
       /\ x' = sub(on, x, y).limbs
       /\ quo' = sub(on, x, y).c
  /\ old' = Snapshot
  /\ UNCHANGED <<m, y, out, e, buf, hi, lo, d, rem, panicked, rest>>

NextCond == CondAdd \/ CondSub

SpecCond == InitCond /\ [][NextCond]_vars

(* 2^(W*n) for nats of the length of l. *)
Span(l) == LimbMod ^ Len(l)

(* C21: for nats x and y of one length with limbs below 2^W, add and sub    *)
(* called with on = 0 leave every limb of x as it was and return the carry  *)
(* or borrow the call with on = 1 returns from the same x; called with      *)
(* on = 1 they leave x = (x +/- y) mod 2^(W*n) and return the carry or      *)
(* borrow out of the top limb.                                              *)
ConditionalAddSub ==
  /\ (op = "add" /\ word = 0) => (x = old.x /\ quo = add(1, old.x, y).c)
  /\ (op = "sub" /\ word = 0) => (x = old.x /\ quo = sub(1, old.x, y).c)
  /\ (op = "add" /\ word = 1) =>
       /\ Len(x) = Len(old.x) /\ InRangeLimbs(x)
       /\ Val(x) = (Val(old.x) + Val(y)) % Span(y)
       /\ quo = (Val(old.x) + Val(y)) \div Span(y)
  /\ (op = "sub" /\ word = 1) =>
       /\ Len(x) = Len(old.x) /\ InRangeLimbs(x)
       /\ Val(x) = (Val(old.x) - Val(y) + Span(y)) % Span(y)
       /\ quo = IF Val(old.x) < Val(y) THEN 1 ELSE 0

(* A two-limb addition that was not to happen and still returns the carry   *)
(* out of the top limb, which the carry out of the low limb causes.         *)
ConditionalAddSubWitness ==
  /\ op = "add" /\ word = 0
  /\ Len(x) = 2 /\ x = old.x
  /\ x[2] + y[2] = _MASK
  /\ quo = 1

(* A two-limb subtraction that was not to happen and returns a borrow. *)
ConditionalSubBorrow ==
  /\ op = "sub" /\ word = 0
  /\ Len(x) = 2 /\ x = old.x
  /\ x[2] = y[2]
  /\ quo = 1

=============================================================================
